---- MODULE Spec2Model ----
(***************************************************************************)
(* Thoughtful AI support agent: the knowledge-base lookup tool and the     *)
(* chat-session script (src/agent.py, src/app.py).                         *)
(*                                                                         *)
(* Text is modelled as a sequence of one-character strings so that         *)
(* lower(), split(), the substring test and the "Q: ...\nA: ..." formatting*)
(* are computed character by character.  A character outside ASCII is     *)
(* written as its code point, e.g. "U+2019".                               *)
(***************************************************************************)
EXTENDS FiniteSets, Integers, Sequences, TLC

(***************************************************************************)
(* Knowledge base (src/agent.py).                                          *)
(***************************************************************************)
THOUGHTFUL_AI_DATA ==
  <<
  \* 'What does the eligibility verification agent (EVA) do?'
  [question |->
     <<"W", "h", "a", "t", " ", "d", "o", "e", "s", " ", "t", "h", "e", " ", "e", "l", "i", "g",
       "i", "b", "i", "l", "i", "t", "y", " ", "v", "e", "r", "i", "f", "i", "c", "a", "t", "i",
       "o", "n", " ", "a", "g", "e", "n", "t", " ", "(", "E", "V", "A", ")", " ", "d", "o", "?">>,
  \* 'EVA automates the process of verifying a patient’s eligibility and benefits information
  \* in real-time, eliminating manual data entry errors and reducing claim rejections.'
   answer |->
     <<"E", "V", "A", " ", "a", "u", "t", "o", "m", "a", "t", "e", "s", " ", "t", "h", "e", " ",
       "p", "r", "o", "c", "e", "s", "s", " ", "o", "f", " ", "v", "e", "r", "i", "f", "y", "i",
       "n", "g", " ", "a", " ", "p", "a", "t", "i", "e", "n", "t", "U+2019", "s", " ", "e", "l",
       "i", "g", "i", "b", "i", "l", "i", "t", "y", " ", "a", "n", "d", " ", "b", "e", "n", "e",
       "f", "i", "t", "s", " ", "i", "n", "f", "o", "r", "m", "a", "t", "i", "o", "n", " ", "i",
       "n", " ", "r", "e", "a", "l", "-", "t", "i", "m", "e", ",", " ", "e", "l", "i", "m", "i",
       "n", "a", "t", "i", "n", "g", " ", "m", "a", "n", "u", "a", "l", " ", "d", "a", "t", "a",
       " ", "e", "n", "t", "r", "y", " ", "e", "r", "r", "o", "r", "s", " ", "a", "n", "d", " ",
       "r", "e", "d", "u", "c", "i", "n", "g", " ", "c", "l", "a", "i", "m", " ", "r", "e", "j",
       "e", "c", "t", "i", "o", "n", "s", ".">>],
  \* 'What does the claims processing agent (CAM) do?'
  [question |->
     <<"W", "h", "a", "t", " ", "d", "o", "e", "s", " ", "t", "h", "e", " ", "c", "l", "a", "i",
       "m", "s", " ", "p", "r", "o", "c", "e", "s", "s", "i", "n", "g", " ", "a", "g", "e", "n",
       "t", " ", "(", "C", "A", "M", ")", " ", "d", "o", "?">>,
  \* 'CAM streamlines the submission and management of claims, improving accuracy, reducing
  \* manual intervention, and accelerating reimbursements.'
   answer |->
     <<"C", "A", "M", " ", "s", "t", "r", "e", "a", "m", "l", "i", "n", "e", "s", " ", "t", "h",
       "e", " ", "s", "u", "b", "m", "i", "s", "s", "i", "o", "n", " ", "a", "n", "d", " ", "m",
       "a", "n", "a", "g", "e", "m", "e", "n", "t", " ", "o", "f", " ", "c", "l", "a", "i", "m",
       "s", ",", " ", "i", "m", "p", "r", "o", "v", "i", "n", "g", " ", "a", "c", "c", "u", "r",
       "a", "c", "y", ",", " ", "r", "e", "d", "u", "c", "i", "n", "g", " ", "m", "a", "n", "u",
       "a", "l", " ", "i", "n", "t", "e", "r", "v", "e", "n", "t", "i", "o", "n", ",", " ", "a",
       "n", "d", " ", "a", "c", "c", "e", "l", "e", "r", "a", "t", "i", "n", "g", " ", "r", "e",
       "i", "m", "b", "u", "r", "s", "e", "m", "e", "n", "t", "s", ".">>],
  \* 'How does the payment posting agent (PHIL) work?'
  [question |->
     <<"H", "o", "w", " ", "d", "o", "e", "s", " ", "t", "h", "e", " ", "p", "a", "y", "m", "e",
       "n", "t", " ", "p", "o", "s", "t", "i", "n", "g", " ", "a", "g", "e", "n", "t", " ", "(",
       "P", "H", "I", "L", ")", " ", "w", "o", "r", "k", "?">>,
  \* 'PHIL automates the posting of payments to patient accounts, ensuring fast, accurate
  \* reconciliation of payments and reducing administrative burden.'
   answer |->
     <<"P", "H", "I", "L", " ", "a", "u", "t", "o", "m", "a", "t", "e", "s", " ", "t", "h", "e",
       " ", "p", "o", "s", "t", "i", "n", "g", " ", "o", "f", " ", "p", "a", "y", "m", "e", "n",
       "t", "s", " ", "t", "o", " ", "p", "a", "t", "i", "e", "n", "t", " ", "a", "c", "c", "o",
       "u", "n", "t", "s", ",", " ", "e", "n", "s", "u", "r", "i", "n", "g", " ", "f", "a", "s",
       "t", ",", " ", "a", "c", "c", "u", "r", "a", "t", "e", " ", "r", "e", "c", "o", "n", "c",
       "i", "l", "i", "a", "t", "i", "o", "n", " ", "o", "f", " ", "p", "a", "y", "m", "e", "n",
       "t", "s", " ", "a", "n", "d", " ", "r", "e", "d", "u", "c", "i", "n", "g", " ", "a", "d",
       "m", "i", "n", "i", "s", "t", "r", "a", "t", "i", "v", "e", " ", "b", "u", "r", "d", "e",
       "n", ".">>],
  \* "Tell me about Thoughtful AI's Agents."
  [question |->
     <<"T", "e", "l", "l", " ", "m", "e", " ", "a", "b", "o", "u", "t", " ", "T", "h", "o", "u",
       "g", "h", "t", "f", "u", "l", " ", "A", "I", "'", "s", " ", "A", "g", "e", "n", "t", "s",
       ".">>,
  \* 'Thoughtful AI provides a suite of AI-powered automation agents designed to streamline
  \* healthcare processes. These include Eligibility Verification (EVA), Claims Processing
  \* (CAM), and Payment Posting (PHIL), among others.'
   answer |->
     <<"T", "h", "o", "u", "g", "h", "t", "f", "u", "l", " ", "A", "I", " ", "p", "r", "o", "v",
       "i", "d", "e", "s", " ", "a", " ", "s", "u", "i", "t", "e", " ", "o", "f", " ", "A", "I",
       "-", "p", "o", "w", "e", "r", "e", "d", " ", "a", "u", "t", "o", "m", "a", "t", "i", "o",
       "n", " ", "a", "g", "e", "n", "t", "s", " ", "d", "e", "s", "i", "g", "n", "e", "d", " ",
       "t", "o", " ", "s", "t", "r", "e", "a", "m", "l", "i", "n", "e", " ", "h", "e", "a", "l",
       "t", "h", "c", "a", "r", "e", " ", "p", "r", "o", "c", "e", "s", "s", "e", "s", ".", " ",
       "T", "h", "e", "s", "e", " ", "i", "n", "c", "l", "u", "d", "e", " ", "E", "l", "i", "g",
       "i", "b", "i", "l", "i", "t", "y", " ", "V", "e", "r", "i", "f", "i", "c", "a", "t", "i",
       "o", "n", " ", "(", "E", "V", "A", ")", ",", " ", "C", "l", "a", "i", "m", "s", " ", "P",
       "r", "o", "c", "e", "s", "s", "i", "n", "g", " ", "(", "C", "A", "M", ")", ",", " ", "a",
       "n", "d", " ", "P", "a", "y", "m", "e", "n", "t", " ", "P", "o", "s", "t", "i", "n", "g",
       " ", "(", "P", "H", "I", "L", ")", ",", " ", "a", "m", "o", "n", "g", " ", "o", "t", "h",
       "e", "r", "s", ".">>],
  \* "What are the benefits of using Thoughtful AI's agents?"
  [question |->
     <<"W", "h", "a", "t", " ", "a", "r", "e", " ", "t", "h", "e", " ", "b", "e", "n", "e", "f",
       "i", "t", "s", " ", "o", "f", " ", "u", "s", "i", "n", "g", " ", "T", "h", "o", "u", "g",
       "h", "t", "f", "u", "l", " ", "A", "I", "'", "s", " ", "a", "g", "e", "n", "t", "s", "?">>,
  \* "Using Thoughtful AI's Agents can significantly reduce administrative costs, improve
  \* operational efficiency, and reduce errors in critical processes like claims management and
  \* payment posting."
   answer |->
     <<"U", "s", "i", "n", "g", " ", "T", "h", "o", "u", "g", "h", "t", "f", "u", "l", " ", "A",
       "I", "'", "s", " ", "A", "g", "e", "n", "t", "s", " ", "c", "a", "n", " ", "s", "i", "g",
       "n", "i", "f", "i", "c", "a", "n", "t", "l", "y", " ", "r", "e", "d", "u", "c", "e", " ",
       "a", "d", "m", "i", "n", "i", "s", "t", "r", "a", "t", "i", "v", "e", " ", "c", "o", "s",
       "t", "s", ",", " ", "i", "m", "p", "r", "o", "v", "e", " ", "o", "p", "e", "r", "a", "t",
       "i", "o", "n", "a", "l", " ", "e", "f", "f", "i", "c", "i", "e", "n", "c", "y", ",", " ",
       "a", "n", "d", " ", "r", "e", "d", "u", "c", "e", " ", "e", "r", "r", "o", "r", "s", " ",
       "i", "n", " ", "c", "r", "i", "t", "i", "c", "a", "l", " ", "p", "r", "o", "c", "e", "s",
       "s", "e", "s", " ", "l", "i", "k", "e", " ", "c", "l", "a", "i", "m", "s", " ", "m", "a",
       "n", "a", "g", "e", "m", "e", "n", "t", " ", "a", "n", "d", " ", "p", "a", "y", "m", "e",
       "n", "t", " ", "p", "o", "s", "t", "i", "n", "g", ".">>]
  >>

\* 'No specific information found in the knowledge base.'
NotFound ==
  <<"N", "o", " ", "s", "p", "e", "c", "i", "f", "i", "c", " ", "i", "n", "f", "o", "r", "m",
    "a", "t", "i", "o", "n", " ", "f", "o", "u", "n", "d", " ", "i", "n", " ", "t", "h", "e",
    " ", "k", "n", "o", "w", "l", "e", "d", "g", "e", " ", "b", "a", "s", "e", ".">>

\* the f-string pieces of a result block: "Q: "
QPrefix ==
  <<"Q", ":", " ">>

\* the f-string pieces of a result block: "\nA: "
APrefix ==
  <<"\n", "A", ":", " ">>

\* the separator of "\n\n".join
BlankLine ==
  <<"\n", "\n">>

(***************************************************************************)
(* Queries the tool is applied to: concatenations of at most MaxParts      *)
(* phrases of Vocabulary.                                                  *)
(***************************************************************************)
MaxParts == 2

Vocabulary ==
  {
    \* 'What does EVA do?'
    <<"W", "h", "a", "t", " ", "d", "o", "e", "s", " ", "E", "V", "A", " ", "d", "o", "?">>,
    \* 'what is the weather'
    <<"w", "h", "a", "t", " ", "i", "s", " ", "t", "h", "e", " ", "w", "e", "a", "t", "h", "e",
      "r">>,
    \* ' '
    <<" ">>,
    \* '\t'
    <<"\t">>,
    \* 'xyz'
    <<"x", "y", "z">>,
    \* 'CAM'
    <<"C", "A", "M">>,
    \* 'agent'
    <<"a", "g", "e", "n", "t">>,
    \* "Tell me about Thoughtful AI's Agents."
    <<"T", "e", "l", "l", " ", "m", "e", " ", "a", "b", "o", "u", "t", " ", "T", "h", "o", "u",
      "g", "h", "t", "f", "u", "l", " ", "A", "I", "'", "s", " ", "A", "g", "e", "n", "t", "s",
      ".">>,
    \* "Thoughtful AI's agents"
    <<"T", "h", "o", "u", "g", "h", "t", "f", "u", "l", " ", "A", "I", "'", "s", " ", "a", "g",
      "e", "n", "t", "s">>,
    \* 'What does the'
    <<"W", "h", "a", "t", " ", "d", "o", "e", "s", " ", "t", "h", "e">>,
    \* 'benefits'
    <<"b", "e", "n", "e", "f", "i", "t", "s">>
  }

\* 'What does EVA do?'
EvaQuery ==
  <<"W", "h", "a", "t", " ", "d", "o", "e", "s", " ", "E", "V", "A", " ", "d", "o", "?">>

\* 'what is the weather'
WeatherQuery ==
  <<"w", "h", "a", "t", " ", "i", "s", " ", "t", "h", "e", " ", "w", "e", "a", "t", "h", "e",
    "r">>

(***************************************************************************)
(* Python string primitives used by the tool.                              *)
(***************************************************************************)
UpperCase ==
  <<"A", "B", "C", "D", "E", "F", "G", "H", "I", "J", "K", "L", "M",
    "N", "O", "P", "Q", "R", "S", "T", "U", "V", "W", "X", "Y", "Z">>

LowerCase ==
  <<"a", "b", "c", "d", "e", "f", "g", "h", "i", "j", "k", "l", "m",
    "n", "o", "p", "q", "r", "s", "t", "u", "v", "w", "x", "y", "z">>

\* The characters str.split() treats as separators.
Whitespace == {" ", "\t", "\n", "\r", "\f"}

LowerChar(c) ==
  IF \E k \in 1..Len(UpperCase) : UpperCase[k] = c
  THEN LowerCase[CHOOSE k \in 1..Len(UpperCase) : UpperCase[k] = c]
  ELSE c

\* str.lower()
RECURSIVE lower(_)
lower(s) ==
  IF s = <<>> THEN <<>> ELSE <<LowerChar(Head(s))>> \o lower(Tail(s))

\* Python's  sub in s  on strings: sub occurs in s as a contiguous run.
IsSubstring(sub, s) ==
  \E k \in 0..(Len(s) - Len(sub)) : SubSeq(s, k + 1, k + Len(sub)) = sub

\* str.split() without arguments: the maximal runs of non-whitespace.
RECURSIVE SplitFrom(_, _, _)
SplitFrom(s, k, word) ==
  IF k > Len(s)
  THEN IF word = <<>> THEN <<>> ELSE <<word>>
  ELSE IF s[k] \in Whitespace
       THEN IF word = <<>>
            THEN SplitFrom(s, k + 1, <<>>)
            ELSE <<word>> \o SplitFrom(s, k + 1, <<>>)
       ELSE SplitFrom(s, k + 1, Append(word, s[k]))

split(s) == SplitFrom(s, 1, <<>>)

\* sep.join(parts)
RECURSIVE join(_, _)
join(sep, parts) ==
  IF parts = <<>> THEN <<>>
  ELSE IF Len(parts) = 1 THEN parts[1]
  ELSE parts[1] \o sep \o join(sep, Tail(parts))

(***************************************************************************)
(* get_thoughtful_ai_info (src/agent.py).                                  *)
(***************************************************************************)
Questions == THOUGHTFUL_AI_DATA

\* The condition of the first loop, for one item and the lowercased query.
SubstringMatch(query, item) ==
  \/ IsSubstring(query, lower(item.question))
  \/ IsSubstring(lower(item.question), query)

\* Variant: a later matching item overrides an earlier one.
RECURSIVE FirstMatchFrom_last(_, _)
FirstMatchFrom_last(query, k) ==
  IF k > Len(Questions) THEN 0
  ELSE LET later == FirstMatchFrom_last(query, k + 1)
       IN  IF later # 0 THEN later
           ELSE IF SubstringMatch(query, Questions[k]) THEN k ELSE 0

\* The first loop: index of the first item that matches, 0 when none does.
RECURSIVE FirstMatchFrom(_, _)
FirstMatchFrom(query, k) ==
  IF k > Len(Questions) THEN 0
  ELSE IF SubstringMatch(query, Questions[k]) THEN k
  ELSE FirstMatchFrom(query, k + 1)

\* The condition of the second loop: any(word in question for word in words).
KeywordMatch(query, item) ==
  LET words == split(query)
  IN  \E w \in 1..Len(words) : IsSubstring(words[w], lower(item.question))

\* f"Q: {item['question']}\nA: {item['answer']}"
FormatResult(item) ==
  QPrefix \o item.question \o APrefix \o item.answer

\* The second loop: the formatted blocks of the matching items, in list order.
RECURSIVE ResultsFrom(_, _)
ResultsFrom(query, k) ==
  IF k > Len(Questions) THEN <<>>
  ELSE IF KeywordMatch(query, Questions[k])
       THEN <<FormatResult(Questions[k])>> \o ResultsFrom(query, k + 1)
       ELSE ResultsFrom(query, k + 1)

\* Variant: results[:3]
TopResults_three(results) ==
  SubSeq(results, 1, IF Len(results) < 3 THEN Len(results) ELSE 3)

\* results[:2]
TopResults(results) ==
  SubSeq(results, 1, IF Len(results) < 2 THEN Len(results) ELSE 2)

get_thoughtful_ai_info(q) ==
  LET query   == lower(q)
      first   == FirstMatchFrom(query, 1)
      results == ResultsFrom(query, 1)
  IN  IF first # 0 THEN Questions[first].answer
      ELSE IF results # <<>> THEN join(BlankLine, TopResults(results))
      ELSE NotFound

(***************************************************************************)
(* get_chat_model, ResponseSchema, get_agent (src/agent.py).               *)
(***************************************************************************)
\* os.environ.get("GOOGLE_API_KEY") when the variable is not set.
Absent == "<absent>"

\* st.secrets when there is no secrets.toml: reading it raises FileNotFoundError.
NoSecretsFile == "<no secrets.toml>"

ApiKey == "api-key"

EnvironValues == {Absent, "", ApiKey}

SecretsValues == {NoSecretsFile, Absent, "", ApiKey}

\* Python truth value of os.environ.get("GOOGLE_API_KEY").
Truthy(v) == v # Absent /\ v # ""

\* Variant: the second check of the key is missing.
get_chat_model_unchecked(env, sec) ==
  LET env1 == IF ~Truthy(env) /\ sec # NoSecretsFile /\ sec # Absent
              THEN sec
              ELSE env
  IN  [raised |-> FALSE, environ |-> env1, model_inits |-> 1]

\* Returns the environment it leaves behind, whether it raised, and the number
\* of init_chat_model calls it made.
get_chat_model(env, sec) ==
  LET env1 == IF ~Truthy(env) /\ sec # NoSecretsFile /\ sec # Absent
              THEN sec
              ELSE env
  IN  IF ~Truthy(env1)
      THEN [raised |-> TRUE,  environ |-> env1, model_inits |-> 0]
      ELSE [raised |-> FALSE, environ |-> env1, model_inits |-> 1]

\* Confidence values are floats, modelled in units of 1/Scale.
Scale == 10

ConfSlack == 1

Floats == (0 - ConfSlack)..(Scale + ConfSlack)

Answers == {"answer-1", "answer-2"}

Reasonings == {<<>>, <<"step">>}

\* The instances the schema accepts: confidence is any float.
ResponseSchema ==
  [answer : Answers, confidence : Floats, reasoning : Reasonings]

\* Returns what get_chat_model returns plus the number of agents created;
\* an exception of get_chat_model propagates.
get_agent(env, sec) ==
  LET m == get_chat_model(env, sec)
  IN  [raised |-> m.raised, environ |-> m.environ, model_inits |-> m.model_inits,
       agents |-> IF m.raised THEN 0 ELSE 1]

(***************************************************************************)
(* The Streamlit script (src/app.py): one script run per UI event.         *)
(***************************************************************************)
MaxRuns == 3

Prompts == {"prompt-1", "prompt-2"}

\* st.chat_input returns None when nothing was submitted.
None == "<None>"

\* str(uuid.uuid4())
ThreadIds == {"uuid-1", "uuid-2"}

VARIABLES
  query, result, tpc,      \* the tool call: argument, return value, position
  environ,                 \* os.environ["GOOGLE_API_KEY"]
  secrets,                 \* st.secrets["GOOGLE_API_KEY"]
  session_state,           \* st.session_state: a function on the keys present
  pc,                      \* position of the script run
  prompt,                  \* what st.chat_input returned in this run
  runs,                    \* number of script runs started
  chat_input_shown,        \* the chat input widget has been rendered
  displayed,               \* outcome of the latest run shown to the user
  structured_res,          \* the structured response rendered last
  invocations,             \* agent.invoke calls made, in order
  model_inits,             \* init_chat_model calls made
  agents_created,          \* create_agent calls made
  inits,                   \* session_state keys initialized, with the run
  before                   \* session_state at the start of the run

toolVars == <<query, result, tpc>>

sessionVars ==
  <<environ, secrets, session_state, pc, prompt, runs, chat_input_shown,
    displayed, structured_res, invocations, model_inits, agents_created,
    inits, before>>

vars == <<toolVars, sessionVars>>

EmptyState == [k \in {} |-> 0]

NoResponse == [answer |-> "", confidence |-> 0, reasoning |-> <<>>]

Has(key) == key \in DOMAIN session_state

Set(key, value) == (key :> value) @@ session_state

UserMessage(p) == [role |-> "user", content |-> p]

AssistantMessage(a) == [role |-> "assistant", content |-> a]

\* Variant: the prompt is shown but not recorded.
AppendUser_skip(messages, p) == messages

\* st.session_state.messages.append({"role": "user", "content": prompt})
AppendUser(messages, p) == Append(messages, UserMessage(p))

\* Variant: the answer replaces the last entry instead of following it.
AppendAssistant_overwrite(messages, a) ==
  [messages EXCEPT ![Len(messages)] = AssistantMessage(a)]

\* st.session_state.messages.append({"role": "assistant", "content": answer})
AppendAssistant(messages, a) == Append(messages, AssistantMessage(a))

\* Variant: a new identifier on every script run.
InitThreadIdValue_always(present, old, fresh) == fresh

\* if "thread_id" not in st.session_state: ... = str(uuid.uuid4())
InitThreadIdValue(present, old, fresh) == IF present THEN old ELSE fresh

SessionInit ==
  /\ environ \in EnvironValues
  /\ secrets \in SecretsValues
  /\ session_state = EmptyState
  /\ pc = "wait"
  /\ prompt = None
  /\ runs = 0
  /\ chat_input_shown = FALSE
  /\ displayed = "none"
  /\ structured_res = NoResponse
  /\ invocations = <<>>
  /\ model_inits = 0
  /\ agents_created = 0
  /\ inits = <<>>
  /\ before = EmptyState

\* A UI event starts a script run; a prompt can only come from a rendered
\* chat input.
Rerun ==
  /\ pc = "wait"
  /\ runs < MaxRuns
  /\ \E p \in Prompts \cup {None} :
       /\ p # None => chat_input_shown
       /\ prompt' = p
  /\ runs' = runs + 1
  /\ before' = session_state
  /\ displayed' = "none"
  /\ pc' = "init_messages"
  /\ UNCHANGED <<environ, secrets, session_state, chat_input_shown,
                 structured_res, invocations, model_inits, agents_created, inits>>

InitMessages ==
  /\ pc = "init_messages"
  /\ IF Has("messages")
     THEN UNCHANGED <<session_state, inits>>
     ELSE /\ session_state' = Set("messages", <<>>)
          /\ inits' = Append(inits, [key |-> "messages", run |-> runs])
  /\ pc' = "init_agent"
  /\ UNCHANGED <<environ, secrets, prompt, runs, chat_input_shown, displayed,
                 structured_res, invocations, model_inits, agents_created, before>>

\* get_agent() is outside any try: its exception ends the script run.
InitAgent ==
  /\ pc = "init_agent"
  /\ IF Has("agent")
     THEN /\ pc' = "init_thread_id"
          /\ UNCHANGED <<environ, session_state, displayed, model_inits,
                         agents_created, inits>>
     ELSE LET r == get_agent(environ, secrets)
          IN  /\ environ' = r.environ
              /\ model_inits' = model_inits + r.model_inits
              /\ agents_created' = agents_created + r.agents
              /\ IF r.raised
                 THEN /\ displayed' = "exception"
                      /\ pc' = "wait"
                      /\ UNCHANGED <<session_state, inits>>
                 ELSE /\ session_state' = Set("agent", agents_created')
                      /\ inits' = Append(inits, [key |-> "agent", run |-> runs])
                      /\ pc' = "init_thread_id"
                      /\ UNCHANGED displayed
  /\ UNCHANGED <<secrets, prompt, runs, chat_input_shown, structured_res,
                 invocations, before>>

InitThreadId ==
  /\ pc = "init_thread_id"
  /\ \E fresh \in ThreadIds :
       LET old == IF Has("thread_id") THEN session_state.thread_id ELSE fresh
           new == InitThreadIdValue(Has("thread_id"), old, fresh)
       IN  /\ session_state' = Set("thread_id", new)
           /\ inits' = IF Has("thread_id") /\ new = old
                       THEN inits
                       ELSE Append(inits, [key |-> "thread_id", run |-> runs])
  /\ pc' = "chat_input"
  /\ UNCHANGED <<environ, secrets, prompt, runs, chat_input_shown, displayed,
                 structured_res, invocations, model_inits, agents_created, before>>

\* The history is drawn, the chat input is rendered, and a submitted prompt is
\* appended to the history.
ChatInput ==
  /\ pc = "chat_input"
  /\ chat_input_shown' = TRUE
  /\ IF prompt = None
     THEN /\ pc' = "wait"
          /\ UNCHANGED session_state
     ELSE /\ session_state' =
               [session_state EXCEPT !.messages = AppendUser(@, prompt)]
          /\ pc' = "invoke"
  /\ UNCHANGED <<environ, secrets, prompt, runs, displayed, structured_res,
                 invocations, model_inits, agents_created, inits, before>>

Invocation ==
  [agent |-> session_state.agent, thread_id |-> session_state.thread_id,
   content |-> prompt]

\* agent.invoke returns a response whose structured_response the schema accepted.
InvokeReturns ==
  /\ pc = "invoke"
  /\ invocations' = Append(invocations, Invocation)
  /\ \E r \in ResponseSchema :
       /\ structured_res' = r
       /\ session_state' =
            [session_state EXCEPT !.messages = AppendAssistant(@, r.answer)]
  /\ displayed' = "answer"
  /\ pc' = "wait"
  /\ UNCHANGED <<environ, secrets, prompt, runs, chat_input_shown, model_inits,
                 agents_created, inits, before>>

\* agent.invoke raises: except Exception shows st.error.
InvokeRaises ==
  /\ pc = "invoke"
  /\ invocations' = Append(invocations, Invocation)
  /\ displayed' = "error"
  /\ pc' = "wait"
  /\ UNCHANGED <<environ, secrets, session_state, prompt, runs, chat_input_shown,
                 structured_res, model_inits, agents_created, inits, before>>

Init ==
  /\ SessionInit
  /\ query = <<>>
  /\ result = <<>>
  /\ tpc = "unused"

Next ==
  \/ Rerun /\ UNCHANGED toolVars
  \/ InitMessages /\ UNCHANGED toolVars
  \/ InitAgent /\ UNCHANGED toolVars
  \/ InitThreadId /\ UNCHANGED toolVars
  \/ ChatInput /\ UNCHANGED toolVars
  \/ InvokeReturns /\ UNCHANGED toolVars
  \/ InvokeRaises /\ UNCHANGED toolVars

Spec == Init /\ [][Next]_vars

(***************************************************************************)
(* The tool applied to bounded queries.                                    *)
(***************************************************************************)
RECURSIVE Concat(_)
Concat(parts) ==
  IF parts = <<>> THEN <<>> ELSE Head(parts) \o Concat(Tail(parts))

Queries ==
  UNION {{Concat(parts) : parts \in [1..n -> Vocabulary]} : n \in 0..MaxParts}

ToolInit ==
  /\ query \in Queries
  /\ result = <<>>
  /\ tpc = "ready"
  /\ environ = Absent
  /\ secrets = NoSecretsFile
  /\ session_state = EmptyState
  /\ pc = "off"
  /\ prompt = None
  /\ runs = 0
  /\ chat_input_shown = FALSE
  /\ displayed = "none"
  /\ structured_res = NoResponse
  /\ invocations = <<>>
  /\ model_inits = 0
  /\ agents_created = 0
  /\ inits = <<>>
  /\ before = EmptyState

CallTool ==
  /\ tpc = "ready"
  /\ result' = get_thoughtful_ai_info(query)
  /\ tpc' = "done"
  /\ UNCHANGED <<query, sessionVars>>

ToolNext == CallTool

ToolSpec == ToolInit /\ [][ToolNext]_vars

(***************************************************************************)
(* Properties of the lookup tool, checked under ToolSpec.                  *)
(***************************************************************************)
Min(S) == CHOOSE x \in S : \A y \in S : x <= y

\* Items whose question contains the lowercased query or is contained in it.
Pass1Matches(q) ==
  {k \in 1..Len(Questions) : SubstringMatch(lower(q), Questions[k])}

\* Items whose question contains some token of the lowercased query.
KeywordMatches(q) ==
  {k \in 1..Len(Questions) : KeywordMatch(lower(q), Questions[k])}

\* Number of "Q: " block starts: at the beginning or right after a blank line.
NumBlocks(text) ==
  Cardinality({k \in 1..Len(text) :
     /\ k + Len(QPrefix) - 1 <= Len(text)
     /\ SubSeq(text, k, k + Len(QPrefix) - 1) = QPrefix
     /\ \/ k = 1
        \/ k > 2 /\ SubSeq(text, k - 2, k - 1) = BlankLine})

Block(k) == QPrefix \o Questions[k].question \o APrefix \o Questions[k].answer

\* C1: for the query "What does EVA do?" the tool returns the answer of the
\* first entry verbatim, found by the substring pass.
C1_EvaQueryReturnsEvaAnswer ==
  (tpc = "done" /\ query = EvaQuery) =>
     /\ 1 \in Pass1Matches(query)
     /\ result = Questions[1].answer

\* C2: for the query "what is the weather" the tool returns the not-found
\* sentinel.
C2_WeatherQueryReturnsNotFound ==
  (tpc = "done" /\ query = WeatherQuery) => result = NotFound

\* C3: every query none of whose tokens occurs in a stored question, the empty
\* and the whitespace-only queries included, yields the not-found sentinel.
C3_NoTokenOverlapReturnsNotFound ==
  (tpc = "done" /\ KeywordMatches(query) = {}) => result = NotFound

\* C4: with no substring match and two or more keyword matches the result is
\* exactly the blocks of the two earliest matching entries, in declaration
\* order, joined by a blank line; no result holds more than two blocks.
C4_TwoBlocksInOrder ==
  tpc = "done" =>
     /\ NumBlocks(result) <= 2
     /\ (Pass1Matches(query) = {} /\ Cardinality(KeywordMatches(query)) >= 2) =>
           LET a == Min(KeywordMatches(query))
               b == Min(KeywordMatches(query) \ {a})
           IN  /\ result = Block(a) \o BlankLine \o Block(b)
               /\ NumBlocks(result) = 2

\* A query with no substring match whose tokens occur in more than two
\* questions, the second of the returned entries not being the last match.
C4_Witness ==
  /\ tpc = "done"
  /\ Pass1Matches(query) = {}
  /\ Cardinality(KeywordMatches(query)) >= 3
  /\ result = Block(1) \o BlankLine \o Block(2)

\* C9: whenever some entry matches in the substring pass, the result is the
\* bare answer of the earliest such entry, whatever the keyword pass would find.
C9_FirstSubstringMatchWins ==
  (tpc = "done" /\ Pass1Matches(query) # {}) =>
     /\ result = Questions[Min(Pass1Matches(query))].answer
     /\ NumBlocks(result) = 0

\* The substring pass matches an entry that is not the first, while the
\* keyword pass would have put an earlier entry in front of it.
C9_Witness ==
  /\ tpc = "done"
  /\ Pass1Matches(query) # {}
  /\ Min(Pass1Matches(query)) > 1
  /\ Cardinality(KeywordMatches(query)) >= 2
  /\ Min(KeywordMatches(query)) < Min(Pass1Matches(query))
  /\ result = Questions[Min(Pass1Matches(query))].answer

(***************************************************************************)
(* Properties of the chat session, checked under Spec.                     *)
(***************************************************************************)
IsPrefix(s, t) == Len(s) <= Len(t) /\ SubSeq(t, 1, Len(s)) = s

FailedTurn == pc = "wait" /\ displayed = "error"

\* C5 as stated: after a turn whose agent.invoke raised, the session state
\* equals the session state before the turn.
C5_FailedTurnLeavesStateUnchanged ==
  FailedTurn => session_state = before

\* C5 amended: after a turn whose agent.invoke raised, agent and thread_id are
\* unchanged and messages is the history before the turn followed by the
\* user's message; no assistant message is added.
C5_FailedTurnKeepsUserMessage ==
  FailedTurn =>
     /\ DOMAIN session_state = DOMAIN before
     /\ session_state.agent = before.agent
     /\ session_state.thread_id = before.thread_id
     /\ session_state.messages = Append(before.messages, UserMessage(prompt))

\* A failed turn that follows an earlier turn.
C5_Witness ==
  /\ FailedTurn
  /\ Len(before.messages) > 0
  /\ Len(invocations) >= 2

HistoryStep ==
  /\ Has("messages") =>
        /\ "messages" \in DOMAIN session_state'
        /\ IsPrefix(session_state.messages, session_state'.messages)
  /\ (pc = "invoke" /\ displayed' = "answer") =>
        session_state'.messages =
           before.messages \o
              <<UserMessage(prompt), AssistantMessage(structured_res'.answer)>>

\* C6: every step leaves the history before it as a prefix of the history
\* after it, and a successful turn adds the user message and then the
\* assistant message to the history the turn started with.
C6_HistoryAppendOnly == [][HistoryStep]_vars

\* A failed turn followed by a successful one.
C6_Witness ==
  /\ pc = "wait"
  /\ Has("messages")
  /\ Len(session_state.messages) = 3
  /\ session_state.messages[1].role = "user"
  /\ session_state.messages[2].role = "user"
  /\ session_state.messages[3].role = "assistant"

\* C7: the confidence of every response rendered as a successful answer lies
\* in [0,1].
C7_RenderedConfidenceInUnitInterval ==
  displayed = "answer" => structured_res.confidence \in 0..Scale

KeyMissing == ~Truthy(environ) /\ secrets \in {NoSecretsFile, Absent, ""}

MissingKeyInv ==
  KeyMissing =>
     /\ model_inits = 0
     /\ agents_created = 0
     /\ ~Has("agent")
     /\ invocations = <<>>
     /\ pc \in {"wait", "init_messages", "init_agent"}
     /\ (runs >= 1 /\ pc = "wait") => displayed = "exception"

SecretCopyStep ==
  (pc = "init_agent" /\ ~Has("agent") /\ ~Truthy(environ) /\ secrets = ApiKey) =>
     /\ environ' = secrets
     /\ displayed' # "exception"
     /\ "agent" \in DOMAIN session_state'
     /\ model_inits' = model_inits + 1

\* C8: with the key absent or empty in both the environment and the secret
\* store, get_chat_model raises before init_chat_model, no agent is created
\* and no agent.invoke is made; with the key only in the secret store it is
\* copied into the environment and nothing is raised.
C8_MissingKeyRaisesBeforeModel == []MissingKeyInv /\ [][SecretCopyStep]_vars

\* The key is missing and the script has failed on more than one run.
C8_Witness ==
  /\ KeyMissing
  /\ runs >= 2
  /\ pc = "wait"
  /\ displayed = "exception"

InitCount(key) == Cardinality({i \in 1..Len(inits) : inits[i].key = key})

SameAgentAndThread ==
  \A i, j \in 1..Len(invocations) :
     /\ invocations[i].agent = invocations[j].agent
     /\ invocations[i].thread_id = invocations[j].thread_id

StableStep ==
  /\ Has("agent") =>
        /\ "agent" \in DOMAIN session_state'
        /\ session_state'.agent = session_state.agent
  /\ Has("thread_id") =>
        /\ "thread_id" \in DOMAIN session_state'
        /\ session_state'.thread_id = session_state.thread_id

\* C10 as stated: once the first script run has ended, the agent and the
\* thread_id have each been initialized exactly once, on that run.
C10_InitializedOnFirstRun ==
  (runs >= 1 /\ pc = "wait") =>
     /\ Has("agent") /\ InitCount("agent") = 1
     /\ Has("thread_id") /\ InitCount("thread_id") = 1
     /\ \A i \in 1..Len(inits) : inits[i].run = 1

InitOnceInv ==
  /\ InitCount("agent") <= 1
  /\ InitCount("thread_id") <= 1
  /\ \A i \in 1..Len(inits) : inits[i].run = 1
  /\ (runs >= 1 /\ pc = "wait" /\ displayed # "exception") =>
        /\ Has("agent") /\ InitCount("agent") = 1
        /\ Has("thread_id") /\ InitCount("thread_id") = 1
  /\ (runs >= 1 /\ pc = "wait" /\ displayed = "exception") =>
        /\ ~Has("agent") /\ ~Has("thread_id")
        /\ invocations = <<>>
  /\ SameAgentAndThread
  /\ \A i \in 1..Len(invocations) :
        /\ invocations[i].agent = session_state.agent
        /\ invocations[i].thread_id = session_state.thread_id

\* C10 amended: the agent and the thread_id are each initialized at most
\* once and only on the first script run, exactly once when get_agent
\* succeeds there; when it raises, neither is initialized and no invoke is
\* made; once set they never change, and every agent.invoke uses the same
\* agent and the same thread_id.
C10_InitializedAtMostOnceAndStable == []InitOnceInv /\ [][StableStep]_vars

\* Two turns made on the third script run of a session.
C10_Witness ==
  /\ pc = "wait"
  /\ runs >= 3
  /\ Len(invocations) >= 2
  /\ invocations[1].thread_id = session_state.thread_id

====
